---- MODULE Spec2Model ----
(***************************************************************************)
(* Layout contract of MetalShooter/ShaderTypes.h.                          *)
(*                                                                         *)
(* The header is compiled twice, once by the host compiler and once by the *)
(* Metal shader compiler (__METAL_VERSION__ defined).  Each compilation    *)
(* walks the declarations of the header in order and lays every structure  *)
(* out with the default (non-packed) C rules; the enumerations are turned  *)
(* into tables of enumerator values.  Once both sides are built the host   *)
(* fills LightingData and both sides address the elements of its arrays.   *)
(* A second specification edits the *Data structures and the MAX_*         *)
(* capacities and recompiles.                                              *)
(***************************************************************************)
EXTENDS Integers, Sequences, FiniteSets

VARIABLES decls, caps, pos, layout, enums,
          pointLightCount, spotLightCount, access, edits, prev

vars == <<decls, caps, pos, layout, enums,
          pointLightCount, spotLightCount, access, edits, prev>>

\* Number of header edits explored by SpecEdit.
MaxEdits == 2

\* The two translation units that include the header.
Targets == {"host", "metal"}

-----------------------------------------------------------------------------
(* Capacity constants *)

MAX_POINT_LIGHTS == 8
MAX_SPOT_LIGHTS == 8
MAX_DIRECTIONAL_LIGHTS == 4
MAX_CASCADE_COUNT_Five == 4 + 1
MAX_CASCADE_COUNT == 4

HeaderCaps ==
  [MAX_POINT_LIGHTS |-> MAX_POINT_LIGHTS,
   MAX_SPOT_LIGHTS |-> MAX_SPOT_LIGHTS,
   MAX_DIRECTIONAL_LIGHTS |-> MAX_DIRECTIONAL_LIGHTS,
   MAX_CASCADE_COUNT |-> MAX_CASCADE_COUNT]

CapNames == DOMAIN HeaderCaps

-----------------------------------------------------------------------------
(* Structure declarations: one record per declared field, in declaration   *)
(* order.  count is "" for a plain field and the name of the capacity      *)
(* constant for an array field; attr is the [[attribute(n)]] slot, or -1.  *)

F(n, ty) == [name |-> n, type |-> ty, count |-> "", attr |-> -1]

FA(n, ty, a) == [name |-> n, type |-> ty, count |-> "", attr |-> a]

FN(n, ty, c) == [name |-> n, type |-> ty, count |-> c, attr |-> -1]

VertexInSwapped ==
  << FA("position", "simd_float3", 0),
     FA("normal", "simd_float3", 1),
     FA("texCoords", "simd_float2", 3),
     FA("color", "simd_float4", 2),
     FA("tangent", "simd_float3", 4) >>

VertexIn ==
  << FA("position", "simd_float3", 0),
     FA("normal", "simd_float3", 1),
     FA("texCoords", "simd_float2", 2),
     FA("color", "simd_float4", 3),
     FA("tangent", "simd_float3", 4) >>

Uniforms ==
  << F("modelMatrix", "simd_float4x4"),
     F("viewMatrix", "simd_float4x4"),
     F("projectionMatrix", "simd_float4x4") >>

DirectionalLightData ==
  << F("direction", "simd_float3"),
     F("intensity", "float"),
     F("color", "simd_float3"),
     F("padding", "float") >>

PointLightData ==
  << F("position", "simd_float3"),
     F("intensity", "float"),
     F("color", "simd_float3"),
     F("range", "float") >>

SpotLightData ==
  << F("position", "simd_float3"),
     F("intensity", "float"),
     F("direction", "simd_float3"),
     F("range", "float"),
     F("color", "simd_float3"),
     F("innerConeAngle", "float"),
     F("outerConeAngle", "float"),
     F("padding1", "float"),
     F("padding2", "simd_float2") >>

LightingDataShortArray ==
  << F("ambientColor", "simd_float3"),
     F("padding0", "float"),
     F("cameraPosition", "simd_float3"),
     F("padding1", "float"),
     F("directionalLight", "DirectionalLightData"),
     F("pointLightCount", "int"),
     F("spotLightCount", "int"),
     F("padding2", "simd_float2"),
     FN("pointLights", "PointLightData", "MAX_DIRECTIONAL_LIGHTS"),
     FN("spotLights", "SpotLightData", "MAX_SPOT_LIGHTS"),
     F("cascadeDistances", "simd_float4"),
     FN("shadowMatrices", "simd_float4x4", "MAX_CASCADE_COUNT") >>

LightingData ==
  << F("ambientColor", "simd_float3"),
     F("padding0", "float"),
     F("cameraPosition", "simd_float3"),
     F("padding1", "float"),
     F("directionalLight", "DirectionalLightData"),
     F("pointLightCount", "int"),
     F("spotLightCount", "int"),
     F("padding2", "simd_float2"),
     FN("pointLights", "PointLightData", "MAX_POINT_LIGHTS"),
     FN("spotLights", "SpotLightData", "MAX_SPOT_LIGHTS"),
     F("cascadeDistances", "simd_float4"),
     FN("shadowMatrices", "simd_float4x4", "MAX_CASCADE_COUNT") >>

MaterialDataWithIndex ==
  << F("baseColor", "simd_float4"),
     F("textureIndex", "EnumBackingType"),
     F("metallic", "float"),
     F("roughness", "float"),
     F("ao", "float"),
     F("padding0", "float"),
     F("emissive", "simd_float3"),
     F("padding1", "float") >>

MaterialData ==
  << F("baseColor", "simd_float4"),
     F("metallic", "float"),
     F("roughness", "float"),
     F("ao", "float"),
     F("padding0", "float"),
     F("emissive", "simd_float3"),
     F("padding1", "float") >>

ShadowUniforms ==
  << F("mvpMatrix", "simd_float4x4"),
     F("bias", "float"),
     F("padding", "simd_float3") >>

PointShadowUniforms ==
  << F("mvpMatrix", "simd_float4x4"),
     F("lightPosition", "simd_float3"),
     F("lightRange", "float") >>

LightEmbedding ==
  << F("position", "simd_float3"),
     F("direction", "simd_float3"),
     F("color", "simd_float3"),
     F("intensity", "float"),
     F("range", "float"),
     F("spotAngle", "float"),
     F("data", "PointLightData") >>

Light ==
  << F("position", "simd_float3"),
     F("direction", "simd_float3"),
     F("color", "simd_float3"),
     F("intensity", "float"),
     F("range", "float"),
     F("spotAngle", "float") >>

Material ==
  << F("albedo", "simd_float4"),
     F("metallic", "float"),
     F("roughness", "float"),
     F("ao", "float"),
     F("emission", "float") >>

\* The structures in declaration order.
StructOrder ==
  << "VertexIn", "Uniforms", "DirectionalLightData", "PointLightData",
     "SpotLightData", "LightingData", "MaterialData", "ShadowUniforms",
     "PointShadowUniforms", "Light", "Material" >>

StructNames == { StructOrder[i] : i \in 1..Len(StructOrder) }

Header ==
  [VertexIn |-> VertexIn,
   Uniforms |-> Uniforms,
   DirectionalLightData |-> DirectionalLightData,
   PointLightData |-> PointLightData,
   SpotLightData |-> SpotLightData,
   LightingData |-> LightingData,
   MaterialData |-> MaterialData,
   ShadowUniforms |-> ShadowUniforms,
   PointShadowUniforms |-> PointShadowUniforms,
   Light |-> Light,
   Material |-> Material]

\* The newer structures and the legacy ones kept for Phase 1/2.
DataStructs ==
  {"DirectionalLightData", "PointLightData", "SpotLightData",
   "LightingData", "MaterialData"}

LegacyStructs == {"Light", "Material"}

-----------------------------------------------------------------------------
(* Enumerations: one record per enumerator, in declaration order.  alias   *)
(* is TRUE for the enumerators declared under the backward-compatibility   *)
(* comment; aliasOf is the enumerator of the resource the alias's comment  *)
(* names.                                                                   *)

E(n, v) == [name |-> n, value |-> v, alias |-> FALSE, aliasOf |-> ""]

EA(n, v, m) == [name |-> n, value |-> v, alias |-> TRUE, aliasOf |-> m]

BufferIndexDiverged ==
  << E("BufferIndexVertices", 0),
     E("BufferIndexUniforms", 1),
     E("BufferIndexLightingData", 2),
     E("BufferIndexMaterialData", 3),
     E("BufferIndexShadowData", 4),
     EA("BufferIndexLights", 3, "BufferIndexLightingData"),
     EA("BufferIndexMaterial", 3, "BufferIndexMaterialData") >>

BufferIndex ==
  << E("BufferIndexVertices", 0),
     E("BufferIndexUniforms", 1),
     E("BufferIndexLightingData", 2),
     E("BufferIndexMaterialData", 3),
     E("BufferIndexShadowData", 4),
     EA("BufferIndexLights", 2, "BufferIndexLightingData"),
     EA("BufferIndexMaterial", 3, "BufferIndexMaterialData") >>

VertexAttribute ==
  << E("VertexAttributePosition", 0),
     E("VertexAttributeNormal", 1),
     E("VertexAttributeTexCoord", 2),
     E("VertexAttributeColor", 3),
     E("VertexAttributeTangent", 4) >>

TextureIndexClash ==
  << E("TextureIndexAlbedo", 0),
     E("TextureIndexNormal", 1),
     E("TextureIndexMetallicRoughness", 2),
     E("TextureIndexAO", 3),
     E("TextureIndexEmissive", 4),
     E("TextureIndexShadowMap0", 4),
     E("TextureIndexShadowMap1", 5),
     E("TextureIndexShadowMap2", 6),
     E("TextureIndexShadowMap3", 7),
     EA("TextureIndexMetallic", 2, "TextureIndexMetallicRoughness"),
     EA("TextureIndexRoughness", 3, "TextureIndexMetallicRoughness"),
     EA("TextureIndexEmission", 5, "TextureIndexEmissive") >>

TextureIndex ==
  << E("TextureIndexAlbedo", 0),
     E("TextureIndexNormal", 1),
     E("TextureIndexMetallicRoughness", 2),
     E("TextureIndexAO", 3),
     E("TextureIndexEmissive", 4),
     E("TextureIndexShadowMap0", 5),
     E("TextureIndexShadowMap1", 6),
     E("TextureIndexShadowMap2", 7),
     E("TextureIndexShadowMap3", 8),
     EA("TextureIndexMetallic", 2, "TextureIndexMetallicRoughness"),
     EA("TextureIndexRoughness", 3, "TextureIndexMetallicRoughness"),
     EA("TextureIndexEmission", 5, "TextureIndexEmissive") >>

SamplerIndex ==
  << E("SamplerIndexTexture", 0),
     E("SamplerIndexShadow", 1) >>

EnumOrder == << "BufferIndex", "VertexAttribute", "TextureIndex", "SamplerIndex" >>

EnumNames == { EnumOrder[i] : i \in 1..Len(EnumOrder) }

EnumDecls ==
  [BufferIndex |-> BufferIndex,
   VertexAttribute |-> VertexAttribute,
   TextureIndex |-> TextureIndex,
   SamplerIndex |-> SamplerIndex]

\* The cascade shadow-map enumerators, by cascade number (1-based here).
ShadowMapNames ==
  << "TextureIndexShadowMap0", "TextureIndexShadowMap1",
     "TextureIndexShadowMap2", "TextureIndexShadowMap3" >>

\* The VertexAttribute enumerator that names each VertexIn field.
VertexAttributeOf ==
  [position |-> "VertexAttributePosition",
   normal |-> "VertexAttributeNormal",
   texCoords |-> "VertexAttributeTexCoord",
   color |-> "VertexAttributeColor",
   tangent |-> "VertexAttributeTangent"]

NDecls == Len(StructOrder) + Len(EnumOrder)

-----------------------------------------------------------------------------
(* Size and alignment of the types the header uses, per compiler.  The     *)
(* simd vector and matrix types have the same size and alignment on both   *)
(* sides; EnumBackingType is NSInteger on the host and int32_t in Metal.   *)

BuiltinSize(t, ty) ==
  CASE ty = "float" -> 4
    [] ty = "int" -> 4
    [] ty = "simd_float2" -> 8
    [] ty = "simd_float3" -> 16
    [] ty = "simd_float4" -> 16
    [] ty = "simd_float4x4" -> 64
    [] ty = "EnumBackingType" -> IF t = "metal" THEN 4 ELSE 8

BuiltinAlign(t, ty) ==
  CASE ty = "float" -> 4
    [] ty = "int" -> 4
    [] ty = "simd_float2" -> 8
    [] ty = "simd_float3" -> 16
    [] ty = "simd_float4" -> 16
    [] ty = "simd_float4x4" -> 16
    [] ty = "EnumBackingType" -> IF t = "metal" THEN 4 ELSE 8

\* Number of float components of a vector type.
Components(ty) ==
  CASE ty = "simd_float2" -> 2
    [] ty = "simd_float3" -> 3
    [] ty = "simd_float4" -> 4
    [] OTHER -> 1

\* known: the layouts of the structures declared so far in this compilation.
SizeOf(t, ty, known) ==
  IF ty \in StructNames THEN known[ty].size ELSE BuiltinSize(t, ty)

AlignOf(t, ty, known) ==
  IF ty \in StructNames THEN known[ty].align ELSE BuiltinAlign(t, ty)

ElemCount(f, cp) == IF f.count = "" THEN 1 ELSE cp[f.count]

Max(a, b) == IF a >= b THEN a ELSE b

AlignUp(x, a) == ((x + a - 1) \div a) * a

\* Size of a structure whose last field ends at end: packed (no tail
\* rounding) and default (rounded up to the largest member alignment).
StructSizePacked(end, al) == end

StructSize(end, al) == AlignUp(end, al)

\* Default layout: each field goes to the next offset that is a multiple of
\* its alignment; an array takes count elements of its element size.
RECURSIVE PlaceFields(_, _, _, _, _, _)
PlaceFields(t, fields, known, cp, k, acc) ==
  IF k > Len(fields) THEN acc
  ELSE LET f == fields[k]
           a == AlignOf(t, f.type, known)
           sz == SizeOf(t, f.type, known) * ElemCount(f, cp)
           o == AlignUp(acc.end, a)
       IN PlaceFields(t, fields, known, cp, k + 1,
            [end |-> o + sz,
             align |-> Max(acc.align, a),
             offsets |-> Append(acc.offsets, o),
             sizes |-> Append(acc.sizes, sz)])

LayoutStruct(t, fields, known, cp) ==
  LET p == PlaceFields(t, fields, known, cp, 1,
             [end |-> 0, align |-> 1, offsets |-> << >>, sizes |-> << >>])
  IN [done |-> TRUE,
      names |-> [k \in 1..Len(fields) |-> fields[k].name],
      types |-> [k \in 1..Len(fields) |-> fields[k].type],
      counts |-> [k \in 1..Len(fields) |-> ElemCount(fields[k], cp)],
      attrs |-> [k \in 1..Len(fields) |-> fields[k].attr],
      offsets |-> p.offsets,
      sizes |-> p.sizes,
      size |-> StructSize(p.end, p.align),
      align |-> p.align]

NoLayout ==
  [done |-> FALSE, names |-> << >>, types |-> << >>, counts |-> << >>,
   attrs |-> << >>, offsets |-> << >>, sizes |-> << >>, size |-> 0, align |-> 1]

\* An enumeration becomes the table of its enumerators' explicit values,
\* stored in the compiler's EnumBackingType.
EnumValues(t, decl) ==
  [done |-> TRUE,
   backing |-> BuiltinSize(t, "EnumBackingType"),
   value |-> [n \in { decl[k].name : k \in 1..Len(decl) } |->
               decl[CHOOSE k \in 1..Len(decl) : decl[k].name = n].value ]]

NoEnum == [done |-> FALSE, backing |-> 0, value |-> << >>]

\* Index of the field called n in a compiled structure.
FieldIndex(l, n) == CHOOSE k \in 1..Len(l.names) : l.names[k] = n

NoAccess == [t |-> "", field |-> "", index |-> 0, lo |-> 0, hi |-> 0]

NoPrev == [valid |-> FALSE, host |-> << >>, metal |-> << >>]

-----------------------------------------------------------------------------
(* State *)

Init ==
  /\ decls = Header
  /\ caps = HeaderCaps
  /\ pos = [t \in Targets |-> 0]
  /\ layout = [t \in Targets |-> [s \in StructNames |-> NoLayout]]
  /\ enums = [t \in Targets |-> [e \in EnumNames |-> NoEnum]]
  /\ pointLightCount = 0
  /\ spotLightCount = 0
  /\ access = NoAccess
  /\ edits = 0
  /\ prev = NoPrev

Built == \A t \in Targets : pos[t] = NDecls

\* Compiler t reaches the next typedef struct of the header.
CompileStruct(t) ==
  /\ pos[t] < Len(StructOrder)
  /\ LET s == StructOrder[pos[t] + 1]
     IN layout' = [layout EXCEPT ![t][s] = LayoutStruct(t, decls[s], layout[t], caps)]
  /\ pos' = [pos EXCEPT ![t] = @ + 1]
  /\ UNCHANGED <<decls, caps, enums, pointLightCount, spotLightCount, access, edits, prev>>

\* Compiler t reaches the next NS_ENUM of the header.
CompileEnum(t) ==
  /\ pos[t] >= Len(StructOrder)
  /\ pos[t] < NDecls
  /\ LET e == EnumOrder[pos[t] - Len(StructOrder) + 1]
     IN enums' = [enums EXCEPT ![t][e] = EnumValues(t, EnumDecls[e])]
  /\ pos' = [pos EXCEPT ![t] = @ + 1]
  /\ UNCHANGED <<decls, caps, layout, pointLightCount, spotLightCount, access, edits, prev>>

\* The host sets LightingData.pointLightCount, at most the array capacity.
SetPointLightCount(n) ==
  /\ Built
  /\ n \in 0..caps["MAX_POINT_LIGHTS"]
  /\ pointLightCount' = n
  /\ access' = NoAccess
  /\ UNCHANGED <<decls, caps, pos, layout, enums, spotLightCount, edits, prev>>

\* The host sets LightingData.spotLightCount, at most the array capacity.
SetSpotLightCount(n) ==
  /\ Built
  /\ n \in 0..caps["MAX_SPOT_LIGHTS"]
  /\ spotLightCount' = n
  /\ access' = NoAccess
  /\ UNCHANGED <<decls, caps, pos, layout, enums, pointLightCount, edits, prev>>

\* Bytes [lo, hi) of element i of array field n of LightingData, side t.
ElementAccess(t, n, i) ==
  LET l == layout[t]["LightingData"]
      k == FieldIndex(l, n)
      elem == SizeOf(t, l.types[k], layout[t])
  IN [t |-> t, field |-> n, index |-> i,
      lo |-> l.offsets[k] + i * elem,
      hi |-> l.offsets[k] + i * elem + elem]

\* Side t (host writing, shader reading) addresses pointLights[i], i < count.
AccessPointLight(t, i) ==
  /\ Built
  /\ i \in 0..(pointLightCount - 1)
  /\ access' = ElementAccess(t, "pointLights", i)
  /\ UNCHANGED <<decls, caps, pos, layout, enums, pointLightCount, spotLightCount, edits, prev>>

\* Side t addresses spotLights[i], i < count.
AccessSpotLight(t, i) ==
  /\ Built
  /\ i \in 0..(spotLightCount - 1)
  /\ access' = ElementAccess(t, "spotLights", i)
  /\ UNCHANGED <<decls, caps, pos, layout, enums, pointLightCount, spotLightCount, edits, prev>>

Next ==
  \/ \E t \in Targets : CompileStruct(t)
  \/ \E t \in Targets : CompileEnum(t)
  \/ \E n \in 0..MAX_POINT_LIGHTS : SetPointLightCount(n)
  \/ \E n \in 0..MAX_SPOT_LIGHTS : SetSpotLightCount(n)
  \/ \E t \in Targets, i \in 0..(MAX_POINT_LIGHTS - 1) : AccessPointLight(t, i)
  \/ \E t \in Targets, i \in 0..(MAX_SPOT_LIGHTS - 1) : AccessSpotLight(t, i)

Spec == Init /\ [][Next]_vars

-----------------------------------------------------------------------------
(* Editing the header: a *Data structure gains or loses its last field, or *)
(* a MAX_* capacity changes by one; both sides are then recompiled.  prev  *)
(* keeps the layouts the legacy structures had before the edit.            *)

Recompile ==
  /\ pos' = [t \in Targets |-> 0]
  /\ layout' = [t \in Targets |-> [s \in StructNames |-> NoLayout]]
  /\ enums' = [t \in Targets |-> [e \in EnumNames |-> NoEnum]]
  /\ prev' = [valid |-> TRUE,
              host |-> [s \in LegacyStructs |-> layout["host"][s]],
              metal |-> [s \in LegacyStructs |-> layout["metal"][s]]]
  /\ edits' = edits + 1
  /\ UNCHANGED <<pointLightCount, spotLightCount, access>>

AppendField(d, ty) ==
  /\ Built
  /\ edits < MaxEdits
  /\ decls' = [decls EXCEPT ![d] = Append(@, F("extra", ty))]
  /\ UNCHANGED caps
  /\ Recompile

RemoveLastField(d) ==
  /\ Built
  /\ edits < MaxEdits
  /\ Len(decls[d]) > 1
  /\ decls' = [decls EXCEPT ![d] = SubSeq(@, 1, Len(@) - 1)]
  /\ UNCHANGED caps
  /\ Recompile

ChangeCapacity(c, delta) ==
  /\ Built
  /\ edits < MaxEdits
  /\ caps[c] + delta >= 1
  /\ caps' = [caps EXCEPT ![c] = @ + delta]
  /\ UNCHANGED decls
  /\ Recompile

NextEdit ==
  \/ \E t \in Targets : CompileStruct(t)
  \/ \E t \in Targets : CompileEnum(t)
  \/ \E d \in DataStructs, ty \in {"float", "simd_float3"} : AppendField(d, ty)
  \/ \E d \in DataStructs : RemoveLastField(d)
  \/ \E c \in CapNames, delta \in {-1, 1} : ChangeCapacity(c, delta)

SpecEdit == Init /\ [][NextEdit]_vars

-----------------------------------------------------------------------------
(* Properties *)

RECURSIVE SumSeq(_)
SumSeq(q) == IF q = << >> THEN 0 ELSE q[1] + SumSeq(Tail(q))

Compiled(t, s) == layout[t][s].done

\* C1: every structure a compiler has laid out with the default rules has
\* a total size that is a multiple of 16 bytes.
C1_SizeMultipleOf16 ==
  \A t \in Targets, s \in StructNames :
    Compiled(t, s) => layout[t][s].size % 16 = 0

C1_Witness ==
  /\ Built
  /\ layout["host"]["VertexIn"].size = 80
  /\ layout["host"]["SpotLightData"].size = 112
  /\ layout["host"]["LightingData"].size = 1824
  /\ layout["metal"]["Light"].size = 64
  /\ layout["metal"]["Material"].size = 32

\* C2: for every structure both compilers have laid out, the field offsets
\* and the total size agree between host and Metal, and no structure has a
\* field of the enum backing type (whose width differs between the two).
C2_HostAndMetalLayoutsAgree ==
  /\ \A s \in StructNames :
       (Compiled("host", s) /\ Compiled("metal", s)) =>
         /\ layout["host"][s].offsets = layout["metal"][s].offsets
         /\ layout["host"][s].size = layout["metal"][s].size
  /\ \A t \in Targets, s \in StructNames :
       \A k \in 1..Len(layout[t][s].types) :
         layout[t][s].types[k] # "EnumBackingType"

C2_Witness ==
  /\ Built
  /\ enums["host"]["BufferIndex"].backing = 8
  /\ enums["metal"]["BufferIndex"].backing = 4
  /\ layout["host"]["MaterialData"].offsets = <<0, 16, 20, 24, 28, 32, 48>>
  /\ layout["metal"]["MaterialData"].offsets = <<0, 16, 20, 24, 28, 32, 48>>
  /\ layout["metal"]["MaterialData"].size = 64

\* C3: for every laid-out structure the sizes of the declared fields sum to
\* a multiple of 16 that is the structure's total size (no implicit padding).
C3_FieldsSumToSize ==
  \A t \in Targets, s \in StructNames :
    Compiled(t, s) =>
      /\ SumSeq(layout[t][s].sizes) % 16 = 0
      /\ SumSeq(layout[t][s].sizes) = layout[t][s].size

\* C4: in a compiled BufferIndex the legacy names have the values of the
\* modern names: Lights = LightingData and Material = MaterialData.
C4_BufferIndexAliases ==
  \A t \in Targets :
    enums[t]["BufferIndex"].done =>
      LET v == enums[t]["BufferIndex"].value
      IN /\ v["BufferIndexLights"] = v["BufferIndexLightingData"]
         /\ v["BufferIndexMaterial"] = v["BufferIndexMaterialData"]

C4_Witness ==
  /\ enums["metal"]["BufferIndex"].done
  /\ enums["host"]["BufferIndex"].done
  /\ enums["host"]["BufferIndex"].value["BufferIndexLights"] = 2
  /\ enums["host"]["BufferIndex"].value["BufferIndexMaterial"] = 3

\* C5: the attribute slots of VertexIn are position=0, normal=1,
\* texCoords=2, color=3, tangent=4 in declaration order, and each slot is
\* the value of the VertexAttribute enumerator for that field.
C5_VertexAttributeSlots ==
  \A t \in Targets :
    Compiled(t, "VertexIn") =>
      LET l == layout[t]["VertexIn"]
      IN /\ l.names = <<"position", "normal", "texCoords", "color", "tangent">>
         /\ l.attrs = <<0, 1, 2, 3, 4>>
         /\ enums[t]["VertexAttribute"].done =>
              \A k \in 1..Len(l.names) :
                l.attrs[k] = enums[t]["VertexAttribute"].value[VertexAttributeOf[l.names[k]]]

C5_Witness ==
  /\ Compiled("metal", "VertexIn")
  /\ enums["metal"]["VertexAttribute"].done
  /\ enums["metal"]["VertexAttribute"].value["VertexAttributeTangent"] = 4
  /\ layout["metal"]["VertexIn"].attrs[5] = 4

\* Bytes [lo, hi) of field k of a compiled structure.
FieldLo(l, k) == l.offsets[k]

FieldHi(l, k) == l.offsets[k] + l.sizes[k]

\* C6: an addressed element pointLights[i] or spotLights[i] with i below the
\* count lies wholly inside its own array and overlaps no other field of
\* LightingData.
C6_ElementsInsideOwnArray ==
  access # NoAccess =>
    LET l == layout[access.t]["LightingData"]
        own == FieldIndex(l, access.field)
    IN /\ access.index < (IF access.field = "pointLights"
                            THEN pointLightCount ELSE spotLightCount)
       /\ FieldLo(l, own) <= access.lo
       /\ access.lo < access.hi
       /\ access.hi <= FieldHi(l, own)
       /\ \A k \in 1..Len(l.names) :
            k # own => (access.hi <= FieldLo(l, k) \/ FieldHi(l, k) <= access.lo)

C6_Witness ==
  /\ pointLightCount = MAX_POINT_LIGHTS
  /\ spotLightCount = MAX_SPOT_LIGHTS
  /\ access.field = "spotLights"
  /\ access.index = MAX_SPOT_LIGHTS - 1
  /\ access.lo = 1440
  /\ access.hi = 1552

\* C7: after any edit of a *Data structure or of a MAX_* capacity, the
\* recompiled Light and Material have the offsets and size they had before
\* the edit.
C7_LegacyLayoutStable ==
  prev.valid =>
    \A t \in Targets, s \in LegacyStructs :
      Compiled(t, s) =>
        /\ layout[t][s].offsets = prev[t][s].offsets
        /\ layout[t][s].size = prev[t][s].size

\* An edited and rebuilt header whose LightingData changed size while the
\* legacy structures, which embed no structure and use no capacity, did not.
C7_Witness ==
  /\ edits >= 1
  /\ \A s \in LegacyStructs : \A k \in 1..Len(decls[s]) :
       /\ decls[s][k].type \notin StructNames
       /\ decls[s][k].count = ""
  /\ Built
  /\ layout["host"]["LightingData"].size # 1824
  /\ layout["host"]["Light"].offsets = <<0, 16, 32, 48, 52, 56>>
  /\ layout["host"]["Light"].size = 64
  /\ layout["metal"]["Material"].offsets = <<0, 16, 20, 24, 28>>
  /\ layout["metal"]["Material"].size = 32

\* Values of the TextureIndex enumerators that belong to other textures
\* than any alias: the AO texture and the cascade shadow maps.
OtherTextureValues(v) ==
  {v["TextureIndexAO"]} \cup { v[ShadowMapNames[i]] : i \in 1..Len(ShadowMapNames) }

\* C8: every backward-compatibility alias of TextureIndex has the value of
\* the modern enumerator for the same texture, and not the value of
\* TextureIndexAO or of a shadow-map slot.
C8_TextureAliasesMatch ==
  \A t \in Targets :
    enums[t]["TextureIndex"].done =>
      LET v == enums[t]["TextureIndex"].value
      IN \A k \in 1..Len(TextureIndex) :
           TextureIndex[k].alias =>
             /\ v[TextureIndex[k].name] = v[TextureIndex[k].aliasOf]
             /\ v[TextureIndex[k].name] \notin OtherTextureValues(v)

\* Values a compiled enum gives to its enumerators not declared as aliases.
ModernValues(t, e) ==
  { enums[t][e].value[EnumDecls[e][k].name] :
      k \in { j \in 1..Len(EnumDecls[e]) : ~EnumDecls[e][j].alias } }

ModernCount(e) ==
  Cardinality({ j \in 1..Len(EnumDecls[e]) : ~EnumDecls[e][j].alias })

\* C9: in each compiled enum the enumerators that are not aliases have
\* pairwise distinct values forming the range from 0: BufferIndex 0..4,
\* VertexAttribute 0..4, TextureIndex 0..8, SamplerIndex 0..1.
C9_ModernValuesContiguous ==
  \A t \in Targets, e \in EnumNames :
    enums[t][e].done =>
      /\ Cardinality(ModernValues(t, e)) = ModernCount(e)
      /\ ModernValues(t, e) = 0..(ModernCount(e) - 1)
      /\ ModernValues(t, e) =
           (CASE e = "BufferIndex" -> 0..4
              [] e = "VertexAttribute" -> 0..4
              [] e = "TextureIndex" -> 0..8
              [] e = "SamplerIndex" -> 0..1)

C9_Witness ==
  /\ Built
  /\ ModernValues("metal", "TextureIndex") = 0..8
  /\ ModernValues("host", "SamplerIndex") = {0, 1}
  /\ ModernCount("TextureIndex") = 9

\* C10: the shadowMatrices element count, the component count of
\* cascadeDistances and the number of shadow-map enumerators all equal
\* MAX_CASCADE_COUNT, and the shadow-map slots are consecutive.
C10_CascadeCapacityConsistent ==
  \A t \in Targets :
    /\ Compiled(t, "LightingData") =>
         LET l == layout[t]["LightingData"]
         IN /\ l.counts[FieldIndex(l, "shadowMatrices")] = caps["MAX_CASCADE_COUNT"]
            /\ Components(l.types[FieldIndex(l, "cascadeDistances")]) = caps["MAX_CASCADE_COUNT"]
            /\ l.counts[FieldIndex(l, "cascadeDistances")] = 1
    /\ enums[t]["TextureIndex"].done =>
         LET v == enums[t]["TextureIndex"].value
         IN /\ Len(ShadowMapNames) = caps["MAX_CASCADE_COUNT"]
            /\ \A i \in 1..Len(ShadowMapNames) :
                 v[ShadowMapNames[i]] = v[ShadowMapNames[1]] + (i - 1)

C10_Witness ==
  /\ Built
  /\ caps["MAX_CASCADE_COUNT"] = 4
  /\ layout["metal"]["LightingData"].counts[12] = 4
  /\ layout["metal"]["LightingData"].sizes[12] = 256
  /\ enums["metal"]["TextureIndex"].value["TextureIndexShadowMap3"] = 8

====
